---- MODULE Spec2Model ----
(***************************************************************************)
(* aiorwlock: a reader-writer lock for asyncio tasks.                      *)
(*                                                                         *)
(* The model follows src/aiorwlock/__init__.py.  One step of the model is  *)
(* one run of a task between two suspension points of the event loop: the  *)
(* lock of the asyncio.Condition is only ever held between two             *)
(* suspensions, so entering "with (yield from self._cond)" never blocks    *)
(* and every critical section is atomic.  The only suspension inside the   *)
(* core is the wait of Condition.wait_for.                                 *)
(***************************************************************************)
EXTENDS Integers, Sequences, FiniteSets, TLC

\* Number of tasks using the lock.
NTasks == 3
\* Largest number of entries of _owning (holds outstanding at one time).
MaxHolds == 3

Tasks == 1 .. NTasks

VARIABLES
    _state,         \* _RWLockCore._state: > 0 shared count, < 0 exclusive count
    _waiting,       \* _RWLockCore._waiting: writers inside acquire_write
    _owning,        \* _RWLockCore._owning: list of tasks, one entry per hold
    pc,             \* per task: "run", or parked in wait_for: "read" / "write"
    notified,       \* parked tasks whose wait future notify_all has resolved
    cancelling,     \* parked tasks on which cancel() was called, not yet run
    reader_locked,  \* _ReaderLock._locked of RWLock.reader_lock
    writer_locked,  \* _ReaderLock._locked of RWLock.writer_lock
    last,           \* the step just taken: task, operation, outcome
    writes,         \* test_writer_success: the writer's completed acquisitions
    calls           \* test_readers_writers: the acquire calls issued so far

core == [state |-> _state, waiting |-> _waiting, owning |-> _owning]

vars == <<_state, _waiting, _owning, pc, notified, cancelling,
          reader_locked, writer_locked, last, writes, calls>>

----------------------------------------------------------------------------
(* Lists, as Python's list: "in", append, remove (first match).            *)

In(me, l) == \E i \in 1 .. Len(l) : l[i] = me

Count(me, l) == Cardinality({i \in 1 .. Len(l) : l[i] = me})

FirstIndex(me, l) == CHOOSE i \in 1 .. Len(l) :
                        l[i] = me /\ \A j \in 1 .. (i - 1) : l[j] # me

\* list.remove(me): drops the first occurrence (the caller checks In).
Remove(me, l) == LET k == FirstIndex(me, l)
                 IN  [i \in 1 .. (Len(l) - 1) |-> IF i < k THEN l[i] ELSE l[i + 1]]

Holders(l) == {l[i] : i \in 1 .. Len(l)}

----------------------------------------------------------------------------
(* The predicates of wait_for.  Each takes the core's fields as a record   *)
(* and the current task, and gives the predicate's outcome ("true",       *)
(* "false" or "raise") with the fields as it leaves them.                  *)

\* A write grant that forgets to check who owns the lock.
_acquire_write_anyone(c, me) ==
    IF c.state <= 0
    THEN [res |-> "true",
          core |-> [c EXCEPT !.state = @ - 1, !.owning = Append(@, me)]]
    ELSE IF c.state > 0 /\ In(me, c.owning)
    THEN [res |-> "raise", core |-> c]
    ELSE [res |-> "false", core |-> c]

\* A write predicate without the upgrade check: the upgrader just waits.
_acquire_write_noraise(c, me) ==
    IF c.state = 0 \/ (c.state < 0 /\ In(me, c.owning))
    THEN [res |-> "true",
          core |-> [c EXCEPT !.state = @ - 1, !.owning = Append(@, me)]]
    ELSE [res |-> "false", core |-> c]

\* A write predicate that only grants an idle lock: no recursion.
_acquire_write_norecursion(c, me) ==
    IF c.state = 0
    THEN [res |-> "true",
          core |-> [c EXCEPT !.state = @ - 1, !.owning = Append(@, me)]]
    ELSE IF c.state > 0 /\ In(me, c.owning)
    THEN [res |-> "raise", core |-> c]
    ELSE [res |-> "false", core |-> c]

_acquire_write(c, me) ==
    IF c.state = 0 \/ (c.state < 0 /\ In(me, c.owning))
    THEN [res |-> "true",
          core |-> [c EXCEPT !.state = @ - 1, !.owning = Append(@, me)]]
    ELSE IF c.state > 0 /\ In(me, c.owning)
    THEN [res |-> "raise", core |-> c]
    ELSE [res |-> "false", core |-> c]

\* A read grant without the exclusive bias: pending writers are ignored.
_acquire_read_nobias(c, me) ==
    IF c.state < 0
    THEN _acquire_write(c, me)
    ELSE [res |-> "true",
          core |-> [c EXCEPT !.state = @ + 1, !.owning = Append(@, me)]]

\* A read grant that yields to pending writers even on recursion.
_acquire_read_norecursion(c, me) ==
    IF c.state < 0
    THEN _acquire_write(c, me)
    ELSE IF c.waiting = 0
    THEN [res |-> "true",
          core |-> [c EXCEPT !.state = @ + 1, !.owning = Append(@, me)]]
    ELSE [res |-> "false", core |-> c]

\* A read predicate that does not hand an exclusive owner to _acquire_write.
_acquire_read_nopromote(c, me) ==
    LET ok == IF c.waiting = 0 THEN c.state >= 0 \/ In(me, c.owning)
                               ELSE In(me, c.owning)
    IN  IF ok
        THEN [res |-> "true",
              core |-> [c EXCEPT !.state = @ + 1, !.owning = Append(@, me)]]
        ELSE [res |-> "false", core |-> c]

\* A read predicate that admits a fresh reader only to an idle lock.
_acquire_read_single(c, me) ==
    IF c.state < 0
    THEN _acquire_write(c, me)
    ELSE LET ok == IF c.waiting = 0 /\ c.state = 0 THEN TRUE
                                                   ELSE In(me, c.owning)
         IN  IF ok
             THEN [res |-> "true",
                   core |-> [c EXCEPT !.state = @ + 1, !.owning = Append(@, me)]]
             ELSE [res |-> "false", core |-> c]

\* A read predicate that checks the bias only when the lock is shared.
_acquire_read_idlefirst(c, me) ==
    IF c.state < 0
    THEN _acquire_write(c, me)
    ELSE LET ok == IF c.waiting = 0 \/ c.state = 0 THEN TRUE
                                                   ELSE In(me, c.owning)
         IN  IF ok
             THEN [res |-> "true",
                   core |-> [c EXCEPT !.state = @ + 1, !.owning = Append(@, me)]]
             ELSE [res |-> "false", core |-> c]

_acquire_read(c, me) ==
    IF c.state < 0
    THEN _acquire_write(c, me)
    ELSE LET ok == IF c.waiting = 0 THEN TRUE ELSE In(me, c.owning)
         IN  IF ok
             THEN [res |-> "true",
                   core |-> [c EXCEPT !.state = @ + 1, !.owning = Append(@, me)]]
             ELSE [res |-> "false", core |-> c]

----------------------------------------------------------------------------
Init ==
    /\ _state = 0
    /\ _waiting = 0
    /\ _owning = << >>
    /\ pc = [t \in Tasks |-> "run"]
    /\ notified = {}
    /\ cancelling = {}
    /\ reader_locked = FALSE
    /\ writer_locked = FALSE
    /\ last = [task |-> 0, op |-> "init", res |-> "none", via |-> "none"]
    /\ writes = 0
    /\ calls = 0

SetCore(c) ==
    /\ _state' = c.state
    /\ _waiting' = c.waiting
    /\ _owning' = c.owning

\* The handle's "self._locked = v" after its core call returned.
SetLocked(h, v) ==
    /\ reader_locked' = IF h = "reader" THEN v ELSE reader_locked
    /\ writer_locked' = IF h = "writer" THEN v ELSE writer_locked

Parked == {t \in Tasks : pc[t] # "run"}

\* What a step leaves in "last".
Did(t, op, res, h) == last' = [task |-> t, op |-> op, res |-> res, via |-> h]

----------------------------------------------------------------------------
(* _ReaderLock.acquire -> _RWLockCore.acquire_read, up to its return or    *)
(* its first suspension in wait_for.                                       *)
ReaderLockAcquire(t) ==
    /\ pc[t] = "run"
    /\ LET r == _acquire_read(core, t)
       IN  /\ Len(r.core.owning) <= MaxHolds
           /\ SetCore(r.core)
           /\ IF r.res = "true"
              THEN /\ SetLocked("reader", TRUE)
                   /\ Did(t, "acquire_read", "granted", "reader")
                   /\ UNCHANGED pc
              ELSE IF r.res = "raise"
              THEN /\ Did(t, "acquire_read", "UpgradeForbidden", "reader")
                   /\ UNCHANGED <<pc, reader_locked, writer_locked>>
              ELSE /\ pc' = [pc EXCEPT ![t] = "read"]
                   /\ Did(t, "acquire_read", "parked", "reader")
                   /\ UNCHANGED <<reader_locked, writer_locked>>
    /\ UNCHANGED <<notified, cancelling>>

\* acquire_write without its "finally": a raise leaves _waiting bumped.
WriterLockAcquire_nofinally(t) ==
    /\ pc[t] = "run"
    /\ LET r == _acquire_write([core EXCEPT !.waiting = @ + 1], t)
       IN  /\ Len(r.core.owning) <= MaxHolds
           /\ IF r.res = "true"
              THEN /\ SetCore([r.core EXCEPT !.waiting = @ - 1])
                   /\ SetLocked("writer", TRUE)
                   /\ Did(t, "acquire_write", "granted", "writer")
                   /\ UNCHANGED pc
              ELSE IF r.res = "raise"
              THEN /\ SetCore(r.core)
                   /\ Did(t, "acquire_write", "UpgradeForbidden", "writer")
                   /\ UNCHANGED <<pc, reader_locked, writer_locked>>
              ELSE /\ SetCore(r.core)
                   /\ pc' = [pc EXCEPT ![t] = "write"]
                   /\ Did(t, "acquire_write", "parked", "writer")
                   /\ UNCHANGED <<reader_locked, writer_locked>>
    /\ UNCHANGED <<notified, cancelling>>

(* _WriterLock.acquire -> _RWLockCore.acquire_write: _waiting is bumped,   *)
(* the predicate is evaluated, and "finally" takes the bump back when the  *)
(* call ends (by return or by raise) without suspending.                   *)
WriterLockAcquire(t) ==
    /\ pc[t] = "run"
    /\ LET r == _acquire_write([core EXCEPT !.waiting = @ + 1], t)
       IN  /\ Len(r.core.owning) <= MaxHolds
           /\ IF r.res = "true"
              THEN /\ SetCore([r.core EXCEPT !.waiting = @ - 1])
                   /\ SetLocked("writer", TRUE)
                   /\ Did(t, "acquire_write", "granted", "writer")
                   /\ UNCHANGED pc
              ELSE IF r.res = "raise"
              THEN /\ SetCore([r.core EXCEPT !.waiting = @ - 1])
                   /\ Did(t, "acquire_write", "UpgradeForbidden", "writer")
                   /\ UNCHANGED <<pc, reader_locked, writer_locked>>
              ELSE /\ SetCore(r.core)
                   /\ pc' = [pc EXCEPT ![t] = "write"]
                   /\ Did(t, "acquire_write", "parked", "writer")
                   /\ UNCHANGED <<reader_locked, writer_locked>>
    /\ UNCHANGED <<notified, cancelling>>

(* A parked task whose wait future was resolved runs again: wait_for       *)
(* evaluates the predicate once more and either returns or waits on a new  *)
(* future.                                                                 *)
WaitForResume(t) ==
    /\ pc[t] # "run"
    /\ t \in notified
    /\ t \notin cancelling
    /\ LET h  == IF pc[t] = "read" THEN "reader" ELSE "writer"
           op == IF pc[t] = "read" THEN "wake_read" ELSE "wake_write"
           r  == IF pc[t] = "read" THEN _acquire_read(core, t)
                                   ELSE _acquire_write(core, t)
           \* acquire_write's "finally: self._waiting -= 1"
           done == IF pc[t] = "write" THEN [r.core EXCEPT !.waiting = @ - 1]
                                      ELSE r.core
       IN  /\ Len(r.core.owning) <= MaxHolds
           /\ notified' = notified \ {t}
           /\ IF r.res = "true"
              THEN /\ SetCore(done)
                   /\ SetLocked(h, TRUE)
                   /\ pc' = [pc EXCEPT ![t] = "run"]
                   /\ Did(t, op, "granted", h)
              ELSE IF r.res = "raise"
              THEN /\ SetCore(done)
                   /\ pc' = [pc EXCEPT ![t] = "run"]
                   /\ Did(t, op, "UpgradeForbidden", h)
                   /\ UNCHANGED <<reader_locked, writer_locked>>
              ELSE /\ SetCore(r.core)
                   /\ Did(t, op, "parked", h)
                   /\ UNCHANGED <<pc, reader_locked, writer_locked>>
    /\ UNCHANGED cancelling

(* _RWLockCore.release by task me, on the core's fields: the outcome, the  *)
(* fields as it leaves them, and whether it called notify_all.             *)
\* A release that does not check that the caller owns a hold.
release_unchecked(c, me) ==
    LET s == IF c.state > 0 THEN c.state - 1 ELSE c.state + 1
    IN  [res |-> "released",
         core |-> [c EXCEPT !.state = s,
                            !.owning = IF In(me, @) THEN Remove(me, @) ELSE @],
         notify |-> (s = 0)]

\* A release that takes every occurrence of the task out of _owning.
release_all(c, me) ==
    IF ~In(me, c.owning)
    THEN [res |-> "NotHeld", core |-> c, notify |-> FALSE]
    ELSE LET s == IF c.state > 0 THEN c.state - 1 ELSE c.state + 1
         IN  [res |-> "released",
              core |-> [c EXCEPT !.state = s,
                                 !.owning = SelectSeq(@, LAMBDA x : x # me)],
              notify |-> (s = 0)]

\* A release that never calls notify_all.
release_nonotify(c, me) ==
    IF ~In(me, c.owning)
    THEN [res |-> "NotHeld", core |-> c, notify |-> FALSE]
    ELSE LET s == IF c.state > 0 THEN c.state - 1 ELSE c.state + 1
         IN  [res |-> "released",
              core |-> [c EXCEPT !.state = s, !.owning = Remove(me, @)],
              notify |-> FALSE]

release(c, me) ==
    IF ~In(me, c.owning)
    THEN [res |-> "NotHeld", core |-> c, notify |-> FALSE]
    ELSE LET s == IF c.state > 0 THEN c.state - 1 ELSE c.state + 1
         IN  [res |-> "released",
              core |-> [c EXCEPT !.state = s, !.owning = Remove(me, @)],
              notify |-> (s = 0)]

\* A release that takes the mode from the handle it came through: the
\* writer lock's release counts _state up, the reader lock's counts it down.
LockRelease_bymode(t, h) ==
    /\ pc[t] = "run"
    /\ LET r == release(core, t)
           s == IF h = "reader" THEN _state - 1 ELSE _state + 1
       IN  /\ _waiting' = r.core.waiting
           /\ _owning' = r.core.owning
           /\ _state' = IF r.res = "released" THEN s ELSE _state
           /\ notified' = IF r.res = "released" /\ s = 0
                          THEN notified \cup (Parked \ cancelling)
                          ELSE notified
           /\ IF r.res = "released"
              THEN SetLocked(h, FALSE)
              ELSE UNCHANGED <<reader_locked, writer_locked>>
           /\ Did(t, "release", r.res, h)
    /\ UNCHANGED <<pc, cancelling>>

(* _ReaderLock.release (inherited by _WriterLock) -> _RWLockCore.release.  *)
(* notify_all resolves the wait future of every parked task whose future   *)
(* is not done yet.  The handle's flag is cleared only when release        *)
(* returned.                                                               *)
LockRelease(t, h) ==
    /\ pc[t] = "run"
    /\ LET r == release(core, t)
       IN  /\ SetCore(r.core)
           /\ notified' = IF r.notify
                          THEN notified \cup (Parked \ cancelling)
                          ELSE notified
           /\ IF r.res = "released"
              THEN SetLocked(h, FALSE)
              ELSE UNCHANGED <<reader_locked, writer_locked>>
           /\ Did(t, "release", r.res, h)
    /\ UNCHANGED <<pc, cancelling>>

(* Task.cancel() called on a task parked in wait_for.                      *)
TaskCancel(t) ==
    /\ pc[t] # "run"
    /\ t \notin cancelling
    /\ cancelling' = cancelling \cup {t}
    /\ Did(t, "cancel", "requested", "none")
    /\ UNCHANGED <<_state, _waiting, _owning, pc, notified,
                   reader_locked, writer_locked>>

\* A cancelled acquire_write without its "finally": _waiting stays bumped.
WaitCancelled_nofinally(t) ==
    /\ t \in cancelling
    /\ pc' = [pc EXCEPT ![t] = "run"]
    /\ notified' = notified \ {t}
    /\ cancelling' = cancelling \ {t}
    /\ Did(t, IF pc[t] = "read" THEN "cancelled_read" ELSE "cancelled_write",
           "CancelledError", IF pc[t] = "read" THEN "reader" ELSE "writer")
    /\ UNCHANGED <<_state, _waiting, _owning, reader_locked, writer_locked>>

(* The cancelled task runs: CancelledError leaves wait_for; acquire_write's *)
(* "finally" takes its _waiting bump back; the handle's flag is not set.    *)
WaitCancelled(t) ==
    /\ t \in cancelling
    /\ _waiting' = IF pc[t] = "write" THEN _waiting - 1 ELSE _waiting
    /\ pc' = [pc EXCEPT ![t] = "run"]
    /\ notified' = notified \ {t}
    /\ cancelling' = cancelling \ {t}
    /\ Did(t, IF pc[t] = "read" THEN "cancelled_read" ELSE "cancelled_write",
           "CancelledError", IF pc[t] = "read" THEN "reader" ELSE "writer")
    /\ UNCHANGED <<_state, _owning, reader_locked, writer_locked>>

Handles == {"reader", "writer"}

Next ==
    \/ \E t \in Tasks : ReaderLockAcquire(t) /\ UNCHANGED <<writes, calls>>
    \/ \E t \in Tasks : WriterLockAcquire(t) /\ UNCHANGED <<writes, calls>>
    \/ \E t \in Tasks : WaitForResume(t) /\ UNCHANGED <<writes, calls>>
    \/ \E t \in Tasks, h \in Handles : LockRelease(t, h) /\ UNCHANGED <<writes, calls>>
    \/ \E t \in Tasks : TaskCancel(t) /\ UNCHANGED <<writes, calls>>
    \/ \E t \in Tasks : WaitCancelled(t) /\ UNCHANGED <<writes, calls>>

Spec == Init /\ [][Next]_vars

----------------------------------------------------------------------------
(* test_writer_success: reader tasks that loop acquiring and releasing the *)
(* reader lock (one hold at a time), and one writer task that acquires and *)
(* releases the writer lock twice, counting its acquisitions in "writes".  *)
(* The readers here never stop looping.                                    *)

Writer == NTasks
Readers == Tasks \ {Writer}

\* "writes += 1" runs when writer_lock.acquire() has returned.
CountWrite ==
    /\ writes' = IF last'.res = "granted" THEN writes + 1 ELSE writes
    /\ UNCHANGED calls

ReaderLoopAcquire(t) ==
    ~In(t, _owning) /\ ReaderLockAcquire(t) /\ UNCHANGED <<writes, calls>>

ReaderLoopResume(t) == WaitForResume(t) /\ UNCHANGED <<writes, calls>>

ReaderLoopRelease(t) ==
    In(t, _owning) /\ LockRelease(t, "reader") /\ UNCHANGED <<writes, calls>>

WriterTryAcquire ==
    writes < 2 /\ ~In(Writer, _owning) /\ WriterLockAcquire(Writer) /\ CountWrite

WriterResume == WaitForResume(Writer) /\ CountWrite

WriterRelease ==
    In(Writer, _owning) /\ LockRelease(Writer, "writer") /\ UNCHANGED <<writes, calls>>

StarveNext ==
    \/ \E t \in Readers : ReaderLoopAcquire(t)
    \/ \E t \in Readers : ReaderLoopResume(t)
    \/ \E t \in Readers : ReaderLoopRelease(t)
    \/ WriterTryAcquire
    \/ WriterResume
    \/ WriterRelease

(* The event loop runs every task that is ready: a task whose sleep is     *)
(* over or whose wait future is resolved takes its next step.              *)
StarveFair ==
    /\ \A t \in Readers : /\ WF_vars(ReaderLoopAcquire(t))
                          /\ WF_vars(ReaderLoopResume(t))
                          /\ WF_vars(ReaderLoopRelease(t))
    /\ WF_vars(WriterTryAcquire)
    /\ WF_vars(WriterResume)
    /\ WF_vars(WriterRelease)

StarveSpec == Init /\ [][StarveNext]_vars /\ StarveFair

----------------------------------------------------------------------------
(* test_readers_writers and the recursion tests, without cancellation: a   *)
(* finite set of tasks that issue finitely many acquire calls in all       *)
(* (MaxCalls), never attempt an upgrade, and release every hold they are   *)
(* granted.                                                                *)

\* Number of acquire calls the tasks issue in all.
MaxCalls == 4

IssueCall == calls < MaxCalls /\ calls' = calls + 1 /\ UNCHANGED writes

ClientAcquireRead(t) == ReaderLockAcquire(t) /\ IssueCall

ClientAcquireWrite(t) ==
    /\ ~(_state > 0 /\ In(t, _owning))
    /\ WriterLockAcquire(t)
    /\ IssueCall

ClientResume(t) == WaitForResume(t) /\ UNCHANGED <<writes, calls>>

ClientRelease(t) ==
    /\ In(t, _owning)
    /\ \E h \in Handles : LockRelease(t, h)
    /\ UNCHANGED <<writes, calls>>

ProgressNext ==
    \/ \E t \in Tasks : ClientAcquireRead(t)
    \/ \E t \in Tasks : ClientAcquireWrite(t)
    \/ \E t \in Tasks : ClientResume(t)
    \/ \E t \in Tasks : ClientRelease(t)

(* The event loop runs every ready task: a holder goes on to its release,  *)
(* a task whose wait future is resolved re-evaluates its predicate.        *)
ProgressFair ==
    \A t \in Tasks : WF_vars(ClientResume(t)) /\ WF_vars(ClientRelease(t))

ProgressSpec == Init /\ [][ProgressNext]_vars /\ ProgressFair

----------------------------------------------------------------------------
(* Properties.                                                             *)

Distinct == Cardinality(Holders(_owning))

\* The step just taken granted task t one more hold while the lock is shared.
SharedGrant(t) ==
    /\ _state >= 0
    /\ _state' > _state
    /\ Count(t, _owning') > Count(t, _owning)

(* C1: mutual exclusion.  While the lock is held exclusively (_state < 0)  *)
(* exactly one distinct task occurs in _owning, and several distinct tasks *)
(* hold the lock together only while it is shared (_state > 0).            *)
C1_MutualExclusion ==
    /\ _state < 0 => Distinct = 1
    /\ Distinct > 1 => _state > 0

\* An exclusive holder with recursion, while a reader and a writer are parked.
C1_Witness ==
    /\ _state = -2
    /\ \E t \in Tasks : pc[t] = "read"
    /\ \E t \in Tasks : pc[t] = "write"

(* C2: writer preference.  In a step taken while _waiting > 0 no task that *)
(* is not already in _owning is granted a shared hold: a fresh reader that *)
(* calls acquire_read, or re-evaluates its predicate after a wake, is      *)
(* parked, also when the lock is shared.                                   *)
C2_WriterPreference ==
    [][_waiting > 0 =>
         /\ \A t \in Tasks : SharedGrant(t) => In(t, _owning)
         /\ (last'.op \in {"acquire_read", "wake_read"}
             /\ ~In(last'.task, _owning))
            => (last'.res = "parked" /\ pc'[last'.task] = "read"
                /\ _owning' = _owning /\ _state' = _state)]_vars

\* A fresh reader was parked on a shared lock because a writer is pending.
C2_Witness ==
    /\ last.op = "acquire_read"
    /\ last.res = "parked"
    /\ _state > 0
    /\ _waiting > 0

(* C3: writer starvation avoidance.  With reader tasks looping forever on  *)
(* the reader lock and one writer task, under fair scheduling the writer   *)
(* is granted the writer lock, releases it, and is granted it a second     *)
(* time; and whenever it is parked in acquire_write it comes to hold the   *)
(* lock exclusively.                                                       *)
C3_WriterSucceeds ==
    /\ <>(writes = 2)
    /\ (pc[Writer] = "write") ~> (_state < 0 /\ In(Writer, _owning))

\* The writer's second acquisition was granted on a wake, after it had been
\* parked, while a reader is held back.
C3_Witness ==
    /\ writes = 2
    /\ last = [task |-> Writer, op |-> "wake_write", res |-> "granted",
               via |-> "writer"]
    /\ \E t \in Readers : pc[t] = "read"

(* C4: upgrade is forbidden.  When a task that holds the lock in shared    *)
(* mode calls acquire_write, the call raises; _state, _owning and _waiting *)
(* are after the call what they were before it, the task is not parked     *)
(* and still owns its shared hold; and when its next step is a release,    *)
(* the release succeeds and takes one shared hold away.                    *)
C4_UpgradeForbidden ==
    [][/\ (last'.op = "acquire_write"
           /\ _state > 0 /\ In(last'.task, _owning))
          => /\ last'.res = "UpgradeForbidden"
             /\ _state' = _state
             /\ _owning' = _owning
             /\ _waiting' = _waiting
             /\ pc'[last'.task] = "run"
             /\ notified' = notified
       /\ last'.res = "UpgradeForbidden"
          => (last'.op = "acquire_write"
              /\ _state > 0 /\ In(last'.task, _owning))
       /\ (last.res = "UpgradeForbidden"
           /\ last'.op = "release" /\ last'.task = last.task)
          => /\ last'.res = "released"
             /\ _state' = _state - 1
             /\ _state' >= 0
             /\ Count(last.task, _owning') = Count(last.task, _owning) - 1
      ]_vars

\* The upgrade attempt of the only reader failed (lock still Shared(1)),
\* while a writer is parked.
C4_Witness ==
    /\ last.op = "acquire_write"
    /\ last.res = "UpgradeForbidden"
    /\ _state = 1
    /\ _owning = <<last.task>>
    /\ _waiting = 1

(* C5: a release by a task with no occurrence in _owning raises, whatever  *)
(* the lock's state (idle, shared by others, exclusive by another task);   *)
(* it leaves _state, _owning and _waiting as they were, resolves no wait   *)
(* future and leaves the handles' flags alone.  Release raises in no other *)
(* case.                                                                   *)
C5_ReleaseNotHeld ==
    [][last'.op = "release" =>
         /\ ~In(last'.task, _owning)
            => /\ last'.res = "NotHeld"
               /\ _state' = _state
               /\ _owning' = _owning
               /\ _waiting' = _waiting
               /\ notified' = notified
               /\ pc' = pc
               /\ reader_locked' = reader_locked
               /\ writer_locked' = writer_locked
         /\ last'.res = "NotHeld" => ~In(last'.task, _owning)
      ]_vars

\* A release by a non-owner failed while another task holds the lock
\* exclusively and a parked reader stays unwoken.
C5_Witness ==
    /\ last.op = "release"
    /\ last.res = "NotHeld"
    /\ _state < 0
    /\ \E t \in Tasks : pc[t] = "read" /\ t \notin notified

\* The same failure on an idle lock, and on a lock shared by other tasks.
C5_WitnessIdle == last.res = "NotHeld" /\ _state = 0
C5_WitnessShared == last.res = "NotHeld" /\ _state > 0 /\ _waiting > 0

\* The step just taken is task t's evaluation of the read predicate, at the
\* call of acquire_read or on a wake.
ReadAttempt == last'.op \in {"acquire_read", "wake_read"}

(* C6 as stated: on an idle lock (_state = 0) a task that calls            *)
(* acquire_read, or a parked reader that re-evaluates its predicate, is    *)
(* granted at once (Shared(1), _owning = <<t>>), whatever _waiting is.     *)
C6_IdleAlwaysGrants ==
    [][(ReadAttempt /\ _state = 0)
          => /\ last'.res = "granted"
             /\ _state' = 1
             /\ _owning' = <<last'.task>>]_vars

(* C6 amended: on an idle lock the read predicate grants at once           *)
(* (Shared(1), _owning = <<t>>) when _waiting = 0, and parks the reader,   *)
(* leaving the lock idle, when _waiting > 0.                               *)
C6_IdleGrantsUnlessWriterPending ==
    [][(ReadAttempt /\ _state = 0)
          => IF _waiting = 0
             THEN /\ last'.res = "granted"
                  /\ _state' = 1
                  /\ _owning' = <<last'.task>>
                  /\ pc'[last'.task] = "run"
             ELSE /\ last'.res = "parked"
                  /\ _state' = 0
                  /\ _owning' = << >>
                  /\ pc'[last'.task] = "read"]_vars

\* A parked reader re-evaluated its predicate on the idle lock and took it.
C6_Witness ==
    /\ last.op = "wake_read"
    /\ last.res = "granted"
    /\ _state = 1
    /\ _owning = <<last.task>>

\* A reader was parked on an idle lock because a writer is pending.
C6_WitnessParkedOnIdle ==
    /\ last.op \in {"acquire_read", "wake_read"}
    /\ last.res = "parked"
    /\ _state = 0
    /\ _waiting > 0

(* C7: reader recursion is always granted.  A task that already occurs in  *)
(* _owning while the lock is shared and calls acquire_read is granted at   *)
(* once, without parking (Shared(n) to Shared(n+1)), for every value of    *)
(* _waiting.                                                               *)
C7_ReaderRecursion ==
    [][(last'.op = "acquire_read" /\ _state > 0 /\ In(last'.task, _owning))
          => /\ last'.res = "granted"
             /\ _state' = _state + 1
             /\ _owning' = Append(_owning, last'.task)
             /\ _waiting' = _waiting
             /\ pc'[last'.task] = "run"]_vars

\* A second shared hold was granted to an owner while a writer is pending.
C7_Witness ==
    /\ last.op = "acquire_read"
    /\ last.res = "granted"
    /\ _state >= 2
    /\ Count(last.task, _owning) >= 2
    /\ _waiting > 0

(* C8: writer-then-reader recursion.  When the task that holds the lock    *)
(* exclusively calls acquire_read it is granted at once one more exclusive *)
(* hold (_state decremented, one more occurrence in _owning), whatever     *)
(* _waiting is; and from an exclusive state the lock neither becomes       *)
(* shared nor admits another task: it stays exclusive with the same owner  *)
(* until that owner's releases have brought _state back to 0.              *)
C8_WriterThenReader ==
    [][/\ (last'.op = "acquire_read" /\ _state < 0 /\ In(last'.task, _owning))
          => /\ last'.res = "granted"
             /\ _state' = _state - 1
             /\ _owning' = Append(_owning, last'.task)
             /\ _waiting' = _waiting
             /\ pc'[last'.task] = "run"
       /\ _state < 0
          => /\ _state' <= 0
             /\ Holders(_owning') \subseteq Holders(_owning)
             /\ Len(_owning') = - _state'
      ]_vars

\* The exclusive owner took a read hold as a further exclusive hold while a
\* writer is pending.
C8_Witness ==
    /\ last.op = "acquire_read"
    /\ last.res = "granted"
    /\ _state <= -2
    /\ _waiting > 0

(* C9: writer recursion.  A task that holds the lock exclusively and calls *)
(* acquire_write again is granted at once (Exclusive(k) to Exclusive(k+1)). *)
(* While the lock is exclusive every grant goes to the owner, the owner has *)
(* as many occurrences in _owning as -_state, each release by it takes one  *)
(* away, and the lock leaves the exclusive state only by the release that   *)
(* brings _state from -1 to 0.                                              *)
C9_WriterRecursion ==
    [][/\ (last'.op = "acquire_write" /\ _state < 0 /\ In(last'.task, _owning))
          => /\ last'.res = "granted"
             /\ _state' = _state - 1
             /\ _owning' = Append(_owning, last'.task)
             /\ pc'[last'.task] = "run"
       /\ (_state < 0 /\ last'.res = "granted") => In(last'.task, _owning)
       /\ _state < 0 => \A t \in Holders(_owning) : Count(t, _owning) = - _state
       /\ (_state < 0 /\ _state' > _state)
          => /\ last'.op = "release"
             /\ In(last'.task, _owning)
             /\ _state' = _state + 1
      ]_vars

\* A second exclusive hold was granted to the owner while others are parked.
C9_Witness ==
    /\ last.op = "acquire_write"
    /\ last.res = "granted"
    /\ _state = -2
    /\ Parked # {}

(* C10: shared access is shared.  When the lock is shared and no writer is *)
(* pending, acquire_read by a task not in _owning is granted at once,      *)
(* without parking, so that two distinct tasks come to hold the lock       *)
(* together.                                                               *)
C10_SharedIsShared ==
    [][(last'.op = "acquire_read" /\ _state > 0 /\ _waiting = 0
        /\ ~In(last'.task, _owning))
          => /\ last'.res = "granted"
             /\ _state' = _state + 1
             /\ _owning' = Append(_owning, last'.task)
             /\ pc'[last'.task] = "run"
             /\ Cardinality(Holders(_owning')) >= 2]_vars

\* A fresh reader joined a shared lock: two distinct tasks hold it.
C10_Witness ==
    /\ last.op = "acquire_read"
    /\ last.res = "granted"
    /\ _state >= 2
    /\ Cardinality(Holders(_owning)) >= 2
    /\ Count(last.task, _owning) = 1

ParkedWriters == {t \in Tasks : pc[t] = "write"}

(* C11: errors are synchronous.  UpgradeForbidden is raised only in the    *)
(* step that calls acquire_write and NotHeld only in the step that calls   *)
(* release: no re-evaluation of a predicate after a wake raises.  A task   *)
(* that would get UpgradeForbidden, one that holds the lock, is never      *)
(* parked, so never counted in _waiting as a pending writer.               *)
C11_ErrorsSynchronous ==
    [][/\ last'.res = "UpgradeForbidden" => last'.op = "acquire_write"
       /\ last'.res = "NotHeld" => last'.op = "release"
       /\ last'.op \in {"wake_read", "wake_write"}
          => last'.res \in {"granted", "parked"}
       /\ \A t \in Parked' : ~In(t, _owning')
      ]_vars

\* A woken writer re-evaluated its predicate behind another task's hold and
\* went back to waiting, without an error.
C11_Witness ==
    /\ last.op = "wake_write"
    /\ last.res = "parked"
    /\ _state # 0
    /\ pc[last.task] = "write"
    /\ _waiting >= 1

(* C12: in every reachable state the absolute value of _state is the       *)
(* number of entries of _owning, and _state = 0 implies that _owning is    *)
(* empty, after any sequence of acquire, release (failing ones included),  *)
(* wake and cancellation steps.                                            *)
C12_CountMatchesOwners ==
    /\ (IF _state >= 0 THEN _state ELSE - _state) = Len(_owning)
    /\ _state = 0 => _owning = << >>

\* A failed upgrade attempt with two shared holds outstanding.
C12_Witness ==
    /\ last.res = "UpgradeForbidden"
    /\ _state = 2
    /\ Len(_owning) = 2

\* A failed release with exclusive holds outstanding.
C12_WitnessNotHeld == last.res = "NotHeld" /\ _state = -2 /\ Len(_owning) = 2

(* C13: in every state between task steps _waiting is the number of tasks  *)
(* parked inside acquire_write, and is never negative; a call of           *)
(* acquire_write that ends in its first step (granted or UpgradeForbidden)  *)
(* leaves _waiting as it was, and one that ends after parking (granted on   *)
(* a wake, or cancelled) takes its own bump back.                           *)
C13_WaitingCountsParkedWriters ==
    [][/\ _waiting' = Cardinality(ParkedWriters')
       /\ _waiting' >= 0
       /\ (last'.op = "acquire_write"
           /\ last'.res \in {"granted", "UpgradeForbidden"})
          => _waiting' = _waiting
       /\ (last'.op = "wake_write" /\ last'.res = "granted")
          => _waiting' = _waiting - 1
       /\ last'.op = "cancelled_write" => _waiting' = _waiting - 1
      ]_vars

\* A parked writer was cancelled while another writer stays parked.
C13_Witness ==
    /\ last.op = "cancelled_write"
    /\ _waiting = 1
    /\ Cardinality(ParkedWriters) = 1

\* The predicate parked task t waits for, evaluated on core fields c.
WaitPredicate(t, c) ==
    IF pc[t] = "read" THEN _acquire_read(c, t).res = "true"
                      ELSE _acquire_write(c, t).res = "true"

\* A release that lands in idle resolves the wait future of every parked
\* task (a task being cancelled is scheduled to run by its cancellation).
WakesAllOnIdle ==
    (last'.op = "release" /\ last'.res = "released" /\ _state' = 0)
       => Parked \subseteq (notified' \cup cancelling)

\* A release that leaves the lock held resolves no wait future.
WakesNoneWhileHeld ==
    (last'.op = "release" /\ _state' # 0) => notified' = notified

\* Across a step that leaves the lock held, no parked task's predicate
\* changes from false to true.
NoFlipWhileHeld ==
    (_state # 0 /\ _state' # 0)
       => \A t \in Parked \cap Parked' :
             ~WaitPredicate(t, core) => ~WaitPredicate(t, core')

(* C14: the narrow wake policy is sound.  A release that lands in idle     *)
(* wakes all parked waiters, a release that leaves the lock held wakes no  *)
(* one, and while the lock stays held no parked task's predicate changes   *)
(* from false to true.                                                     *)
C14_NarrowWakeSound ==
    [][WakesAllOnIdle /\ WakesNoneWhileHeld /\ NoFlipWhileHeld]_vars

\* The two statements about release alone.
C14_ReleaseWakes == [][WakesAllOnIdle /\ WakesNoneWhileHeld]_vars

\* The third statement on every step but the cancellation of a writer.
C14_NoFlipButCancel ==
    [][last'.op # "cancelled_write" => NoFlipWhileHeld]_vars

(* C15: cancellation of a parked acquirer cleans up.  When a task parked   *)
(* in acquire_write is cancelled, _waiting goes down by exactly one and    *)
(* the task has no occurrence in _owning; when a task parked in            *)
(* acquire_read is cancelled, _state, _owning and _waiting stay as they    *)
(* were.  In both cases the cancelled call grants nothing: from the        *)
(* cancel() on, the task gains no hold by that call, and it leaves the     *)
(* call neither parked nor with a wake pending, and the handle's flag is   *)
(* not set.                                                                *)
C15_CancellationCleansUp ==
    [][/\ last'.op = "cancelled_write"
          => /\ _waiting' = _waiting - 1
             /\ _state' = _state
             /\ _owning' = _owning
             /\ ~In(last'.task, _owning')
       /\ last'.op = "cancelled_read"
          => /\ _waiting' = _waiting
             /\ _state' = _state
             /\ _owning' = _owning
             /\ ~In(last'.task, _owning')
       /\ last'.op \in {"cancelled_read", "cancelled_write"}
          => /\ pc'[last'.task] = "run"
             /\ last'.task \notin notified'
             /\ last'.task \notin cancelling'
             /\ reader_locked' = reader_locked
             /\ writer_locked' = writer_locked
       /\ \A t \in cancelling :
             /\ ~In(t, _owning')
             /\ (last'.task = t => last'.op \in {"cancelled_read",
                                                 "cancelled_write"})
      ]_vars

\* A writer that had been woken on an idle lock was cancelled before it
\* re-evaluated its predicate: it left without taking the lock.
C15_Witness ==
    /\ last.op = "cancelled_write"
    /\ _state = 0
    /\ _waiting = 0
    /\ _owning = << >>
    /\ pc[last.task] = "run"

\* A parked reader was cancelled while the lock is held exclusively.
C15_WitnessReader == last.op = "cancelled_read" /\ _state < 0 /\ _waiting > 0

\* Two lists hold the same tasks the same number of times.
SameMultiset(a, b) == \A u \in Tasks : Count(u, a) = Count(u, b)

SameCore(a, b) ==
    /\ a.state = b.state
    /\ a.waiting = b.waiting
    /\ SameMultiset(a.owning, b.owning)

\* acquire_read by t on fields c when it is granted without parking,
\* followed at once by t's release.
ReadRoundTrip(c, t) == release(_acquire_read(c, t).core, t)

\* The same for acquire_write, with its bump of _waiting around the
\* predicate.
WriteRoundTrip(c, t) ==
    LET r == _acquire_write([c EXCEPT !.waiting = @ + 1], t)
    IN  release([r.core EXCEPT !.waiting = @ - 1], t)

(* C16: round trip.  For any task t that is not parked (taken as the task  *)
(* of each step, from the state the step starts in), in any reachable      *)
(* state where its acquire_read is granted without parking, acquire_read   *)
(* followed at once by release restores _state, _owning (as a multiset)    *)
(* and _waiting, and the same holds of acquire_write followed by release.  *)
(* Every step changes the number of occurrences of each task in _owning by *)
(* +1 when it grants that task a hold, by -1 when that task's release      *)
(* succeeds and by 0 otherwise, so that after matched acquire/release      *)
(* pairs a task has no occurrence left.                                    *)
C16_RoundTrip ==
    [][/\ LET t == last'.task
          IN  pc[t] = "run" =>
                /\ _acquire_read(core, t).res = "true"
                   => \A rr \in {ReadRoundTrip(core, t)} :
                         /\ rr.res = "released"
                         /\ SameCore(rr.core, core)
                /\ _acquire_write(core, t).res = "true"
                   => \A wr \in {WriteRoundTrip(core, t)} :
                         /\ wr.res = "released"
                         /\ SameCore(wr.core, core)
       /\ IF _owning' = _owning
          THEN last'.res \notin {"granted", "released"}
          ELSE LET t == last'.task
               IN  /\ Count(t, _owning') =
                         Count(t, _owning)
                         + (IF last'.res = "granted" THEN 1 ELSE 0)
                         - (IF last'.res = "released" THEN 1 ELSE 0)
                   /\ \A u \in Tasks \ {t} :
                         Count(u, _owning') = Count(u, _owning)
       /\ (last.res = "granted" /\ last'.op = "release"
           /\ last'.task = last.task)
          => /\ last'.res = "released"
             /\ _waiting' = _waiting
             /\ _state' = IF _state > 0 THEN _state - 1 ELSE _state + 1
      ]_vars

\* A task released the hold it had just been granted, on a lock that two
\* tasks share and where it holds another hold: _owning is back to the same
\* multiset.
C16_Witness ==
    /\ last.op = "release"
    /\ last.res = "released"
    /\ _state = 2
    /\ Count(last.task, _owning) = 1
    /\ Cardinality(Holders(_owning)) = 2

(* C17: release is handle-independent in the core.  What a release does to *)
(* _state, _owning, _waiting and the wait futures is fixed by the state    *)
(* and the releasing task alone, whichever handle it goes through and      *)
(* whichever handle granted the hold: the mode dropped is taken from the   *)
(* sign of _state.  The handle only decides which _locked flag is cleared. *)
C17_ReleaseHandleIndependent ==
    [][(last'.op = "release" /\ In(last'.task, _owning))
          => /\ last'.res = "released"
             /\ _state' = IF _state > 0 THEN _state - 1 ELSE _state + 1
             /\ Count(last'.task, _owning') = Count(last'.task, _owning) - 1
             /\ \A u \in Tasks \ {last'.task} :
                   Count(u, _owning') = Count(u, _owning)
             /\ _waiting' = _waiting
             /\ notified' = IF _state' = 0
                            THEN notified \cup (Parked \ cancelling)
                            ELSE notified
             /\ pc' = pc
             /\ reader_locked' = (reader_locked /\ last'.via # "reader")
             /\ writer_locked' = (writer_locked /\ last'.via # "writer")
      ]_vars

\* A shared hold, taken through the reader lock, was released through the
\* writer lock: the core counted one shared hold down, and the reader
\* lock's flag still says locked.
C17_Witness ==
    /\ last.op = "release"
    /\ last.via = "writer"
    /\ last.res = "released"
    /\ _state = 1
    /\ reader_locked
    /\ ~writer_locked

\* An exclusive hold released through the reader lock, as the tests do.
C17_WitnessExclusive ==
    /\ last.op = "release"
    /\ last.via = "reader"
    /\ last.res = "released"
    /\ _state = -1
    /\ writer_locked

(* C18: no waiter is stranded by a cancelled writer.  A reader parked only *)
(* because _waiting > 0 is granted its hold once the lock is idle with     *)
(* _waiting = 0, even when no other task acquires or releases any more.    *)
(* A parked reader runs again only when its wait future is resolved, so    *)
(* whenever the lock is idle with no writer pending, every parked reader   *)
(* must have a wake pending.                                               *)
C18_NoStrandedReader ==
    \A t \in Tasks :
       (pc[t] = "read" /\ _state = 0 /\ _waiting = 0)
          => t \in (notified \cup cancelling)

\* The lock is idle, some task is parked, and no parked task has a wake
\* pending.
LostWake == _state = 0 /\ Parked # {} /\ Parked \cap notified = {}

(* C19: deadlock freedom and progress without cancellation.  For tasks     *)
(* that issue finitely many acquire calls, never attempt an upgrade and    *)
(* release every hold they are granted, under fair scheduling every parked *)
(* reader and every parked writer is eventually granted its hold, and no   *)
(* state is reachable in which the lock is idle, some task is parked and   *)
(* no parked task has a wake pending.                                      *)
C19_Progress ==
    /\ [] ~LostWake
    /\ \A t \in Tasks :
          (pc[t] # "run") ~> (pc[t] = "run" /\ In(t, _owning)
                              /\ last.task = t /\ last.res = "granted")

\* A reader parked on an idle lock behind a woken writer was granted on a
\* later wake, after all the acquire calls had been issued.
C19_Witness ==
    /\ calls = MaxCalls
    /\ last.op = "wake_read"
    /\ last.res = "granted"
    /\ Parked # {}

(* C20: the handle flag tracks holds.  In every state between task steps   *)
(* the reader lock's _locked flag is true exactly when a hold acquired     *)
(* through the reader lock is outstanding, and likewise the writer lock's, *)
(* for any number of tasks using the handles.  In test_writer_success the  *)
(* reader tasks use the reader lock only and the writer task the writer    *)
(* lock only, so the holds acquired through each handle are the holds of   *)
(* those tasks.                                                            *)
C20_FlagTracksHolds ==
    /\ reader_locked <=> (\E t \in Readers : In(t, _owning))
    /\ writer_locked <=> In(Writer, _owning)

====
